---- MODULE Spec2Model ----
(***************************************************************************)
(* Blitz Logger: per-thread SPSC rings, the ring registry, the single      *)
(* consumer thread, the file sink with rotation, and the singleton         *)
(* lifecycle.  Modelled from src/src/blitz_logger.hpp and the matching     *)
(* implementation (src/unnamed/part_009, second translation unit,          *)
(* lines 494-997).                                                         *)
(***************************************************************************)
EXTENDS Integers, Sequences, FiniteSets, TLC

(* ---------------- program constants (scaled) ---------------- *)
\* ThreadLocalBuffer::BUFFER_SIZE (1 << 16 in the source), a power of two
BUFFER_SIZE == 4
\* BATCH_SIZE of processLogs (16384 in the source)
BATCH_SIZE == 2
\* batch threshold of drainAllBuffers (4096 in the source)
DRAIN_BATCH == 3

\* enum class Level
TRACE == 0
DEBUG == 1
INFO == 2
WARNING == 3
ERROR == 4
FATAL == 5
STEP == 6

LEVEL_STRINGS == <<"TRACE", "DEBUG", "INFO", "WARN", "ERROR", "FATAL", "STEP">>

\* COLORS[COLOR_RESET]
COLOR_RESET == "0m"

\* Config::maxFileSize (10 MB in the source), in lines
BigFile == 100
\* Config::maxFileSize of the rollover scenario, in lines: a write can stay
\* below it
MediumFile == 2
\* Config::maxFileSize of the rotation scenario, in lines
SmallFile == 1

(* ---------------- bounds of the model ---------------- *)
\* worker threads besides the main thread in the general scenario
NumWorkers == 1
\* log calls per thread in the general scenario
MaxCalls == 3
\* log calls of the single producer in the ring scenario
RingCalls == 6
\* initialize calls per thread in the initialization scenario
MaxInits == 2
\* set_log_level calls in the level scenario
MaxSetLevel == 1
\* wall-clock seconds
MaxClock == 1
MaxConfigure == 1
MaxCapLog == 5
MaxSetModule == 2

Max(a, b) == IF a >= b THEN a ELSE b

Main == 0
Threads == 0 .. Max(NumWorkers, BATCH_SIZE)
Workers == Threads \ {Main}

\* levels drawn for log calls and for min_level
LogLevels == {INFO, WARNING}

NoMsg == [prod |-> -1, seq |-> 0, level |-> 0, minAt |-> 0, module |-> ""]

\* Context::getThreadLocalModuleName: the initial currentModule, and the
\* names the scenarios pass to setModuleName
DefaultModule == "Default Module"
ModuleNames == {"Net", "Disk"}

\* file names of log_dir that match the prefix: the active file and the
\* rotated files, named by the second of their rotation
ActiveFile == -1
\* files of log_dir that belong to something else: a log of another
\* prefix, and a file with the logger's prefix and another extension
ForeignLog == -2
PrefixText == -3
OtherFiles == {ForeignLog, PrefixText}
FileNames == {ActiveFile} \cup (0 .. MaxClock) \cup OtherFiles

\* Config::filePrefix, and the stem and the extension of each file name
FilePrefix == <<"app">>
Stem(n) ==
    IF n = ForeignLog THEN <<"sys">>
    ELSE IF n \in {ActiveFile, PrefixText} THEN FilePrefix
    ELSE FilePrefix \o <<"_", n>>
Extension(n) == IF n = PrefixText THEN ".txt" ELSE ".log"

\* std::string::starts_with
StartsWith(str, prefix) ==
    Len(str) >= Len(prefix) /\ SubSeq(str, 1, Len(prefix)) = prefix

\* mutant: cleanOldLogs collects every entry of the directory
MatchesAll(n) == TRUE

\* cleanOldLogs: the test of a directory entry
Matches(n) == Extension(n) = ".log" /\ StartsWith(Stem(n), FilePrefix)
NoFile == [exists |-> FALSE, lines |-> <<>>, mtime |-> 0]

VARIABLES
    pc,              \* position of each producer thread
    budget,          \* calls the threads may still make, per operation
    cur,             \* LogMessage under construction in log()
    submitted,       \* per thread: log calls that enqueued and returned
    exists,          \* per thread: localBuffer != nullptr
    slots, head, tail, isActive,    \* ThreadLocalBuffer of each thread
    enq, deq,        \* per ring: completed pushes / completed pops
    registry,        \* BufferRegistry::buffers, in registration order
    registryMutex,   \* thread holding BufferRegistry::registryMutex, or Unlocked
    stats,           \* threadStatsMap: messagesProduced per thread
    instance,        \* Logger::instance: "null" or "live"
    initFlag,        \* Logger::initFlag: "idle", "running", "done"
    initOwner,       \* thread executing the call_once body, or -1
    configHolder,    \* thread holding configMutex exclusively, or -1
    pendingCfg,      \* configure in progress: its argument
    created,         \* Logger objects constructed so far
    spawned,         \* consumer threads started so far
    firstCfg,        \* configuration of the first initialize call
    config,          \* Logger::config
    running,         \* Logger::running
    logFileOpen,     \* logFile.is_open()
    currentFileSize, \* Logger::currentFileSize
    fsys,            \* files of log_dir matching the prefix
    mtick,           \* modification-time source
    clock,           \* wall clock, seconds
    written,         \* every line the file stream accepted, in order
    unflushed,       \* lines in the buffer of the file stream, not yet in the file
    fileHist,        \* history: most lines the active file held, rotations done
    io,              \* I/O errors met, errors reported, process terminated
    console,         \* every line written to std::cout, in order
    coutHeld,        \* lines in the buffer of standard output, not yet out
    stdoutMode,      \* buffering of standard output: "line" or "full"
    probe,           \* one call of isNearlyFull: its ring and its results
    cpc,             \* position of the consumer thread
    snap,            \* consumer: buffers (registry snapshot)
    idx,             \* consumer: index into snap
    cnt,             \* consumer: messagesFromThisBuffer
    processed,       \* consumer: messagesProcessed
    nearly,          \* consumer: anyBufferNearlyFull
    sawRecord,       \* history: a ring of this round held a record at its turn
    cmsg,            \* consumer: msg popped from a ring
    batch,           \* consumer: batchBuffer
    destroyed,       \* destroy_instance has returned
    moduleName,      \* per thread: its thread-local currentModule
    modHist,         \* history: per thread, the module name at each record it built
    atStop,          \* history: the rings registered when running was cleared
    history          \* history: per thread, the levels of its log calls

prodVars == <<pc, budget, cur, submitted, stats>>
ringVars == <<exists, slots, head, tail, isActive, enq, deq, registry, registryMutex>>
lifeVars == <<instance, initFlag, initOwner, created, spawned, firstCfg,
              config, running, destroyed, atStop, history, moduleName, modHist, configHolder, pendingCfg>>
sinkVars == <<logFileOpen, currentFileSize, fsys, mtick, clock, written, console,
              coutHeld, stdoutMode, probe,
              unflushed, fileHist, io>>
consVars == <<cpc, snap, idx, cnt, processed, nearly, sawRecord, cmsg, batch>>
vars == <<prodVars, ringVars, lifeVars, sinkVars, consVars>>

(* ---------------- ThreadLocalBuffer ---------------- *)
\* (i + 1) & (BUFFER_SIZE - 1)
NextIndex(i) == (i + 1) % BUFFER_SIZE

\* mutant: size() without the wrap-around branch
RingSizeNoWrap(h, t, cap) == IF t >= h THEN t - h ELSE h - t

\* ThreadLocalBuffer::size
RingSize(h, t, cap) == IF t >= h THEN t - h ELSE cap - (h - t)

\* ThreadLocalBuffer::isNearlyFull: size() > BUFFER_SIZE * 0.9, a comparison
\* of doubles.  The double nearest to 0.9 is (9 * 2^53 + 2) / (10 * 2^53), its
\* product with a power of two is exact, and so is size() as a double, hence
\* the test is 10 * size - 9 * cap > cap / 2^52, which for integers and
\* cap < 2^52 is 10 * size > 9 * cap
IsNearlyFull(h, t, cap) == 10 * RingSize(h, t, cap) > 9 * cap

\* capacities of the rings isNearlyFull is applied to: the powers of two
\* up to 2^MaxCapLog
RingCapacities == {2^k : k \in 0 .. MaxCapLog}

\* no call of isNearlyFull is under observation
NoProbe == [cap |-> 0, head |-> 0, tail |-> 0, size |-> -1, nearly |-> FALSE]

\* a ring of capacity c with indices h and t, isNearlyFull not yet called
ProbeOf(c, h, t) == [cap |-> c, head |-> h, tail |-> t, size |-> -1, nearly |-> FALSE]

\* mutant: push without the full test
PushHasRoomAlways(p) == TRUE

\* push: the test that the ring has room
PushHasRoom(p) == NextIndex(tail[p]) # head[p]

\* mutant: pop without the empty test
PopHasRecordAlways(b) == TRUE

\* pop: the test that the ring holds a record
PopHasRecord(b) == head[b] # tail[b]

\* pop: the slot the consumer moves the record out of
PopIndex(b) == head[b]

\* mutant: push constructs the record in the slot after current_tail
PushIndexNext(p) == NextIndex(tail[p])

\* push: the slot the producer constructs the record in
PushIndex(p) == tail[p]

\* BufferRegistry::registerBuffer
RegisterBuffer(reg, b) == Append(reg, b)

\* mutant: unregisterBuffer that removes nothing
UnregisterNothing(reg, b) == reg

\* BufferRegistry::unregisterBuffer (std::list::remove)
UnregisterBuffer(reg, b) == SelectSeq(reg, LAMBDA x : x # b)

\* BufferRegistry::getAllBuffers
GetAllBuffers == registry

\* std::mutex that no thread holds
Unlocked == -1
\* the consumer thread (Logger::loggerThread) as holder of a mutex
ConsumerThread == -2

\* mutant: getAllBuffers returns with registryMutex still held
SnapshotKeepsLock == ConsumerThread

\* getAllBuffers: the lock_guard releases registryMutex at the return
SnapshotUnlock == Unlocked

(* ---------------- Config ---------------- *)
\* struct Config defaults (the fields the model keeps)
DefaultConfig == [minLevel |-> INFO, consoleOutput |-> TRUE, fileOutput |-> TRUE,
                  useColors |-> TRUE, maxFileSize |-> BigFile, maxFiles |-> 5]

MkConfig(lvl, con, fil, col, mfs, mf) ==
    [minLevel |-> lvl, consoleOutput |-> con, fileOutput |-> fil,
     useColors |-> col, maxFileSize |-> mfs, maxFiles |-> mf]

\* threads that are not inside a log call
Quiescent(p) == pc[p] \in {"off", "idle", "exit_unreg", "exited"}

NoConfig == MkConfig(-1, FALSE, FALSE, FALSE, 0, 0)

\* Config::maxFiles of the scenarios that do not rotate
FewFiles == 2
\* arguments of configure calls on the running logger
ReConfigs == {MkConfig(WARNING, FALSE, TRUE, FALSE, BigFile, FewFiles),
              MkConfig(INFO, TRUE, FALSE, TRUE, BigFile, FewFiles)}

(* ---------------- Formatter ---------------- *)
\* getLevelColor
GetLevelColor(level) ==
    CASE level = TRACE -> "36m"
      [] level = DEBUG -> "35m"
      [] level = INFO -> "32m"
      [] level = WARNING -> "33m"
      [] level = ERROR -> "31m"
      [] level = FATAL -> "1;31m"
      [] level = STEP -> "34m"
      [] OTHER -> COLOR_RESET

\* formatLogMessage: the level token and the message (producer, number);
\* minAt is a history field, the min_level the log call compared against
FormatLogMessage(msg) ==
    [tag |-> LEVEL_STRINGS[msg.level + 1], prod |-> msg.prod, seq |-> msg.seq,
     minAt |-> msg.minAt, module |-> msg.module]

\* bytes of one formatted line with its newline
LineBytes == 1

\* mutant: the file branch of processMessageBatch with the colour escapes
\* of the console branch
FileLineColored(msg, cfg) ==
    [pre |-> IF cfg.useColors THEN GetLevelColor(msg.level) ELSE "",
     line |-> FormatLogMessage(msg),
     post |-> IF cfg.useColors THEN COLOR_RESET ELSE "",
     minW |-> cfg.minLevel]

\* processMessageBatch: what is appended to fileBuffer for one record;
\* minW is a history field, the min_level in force when the line is written
FileLine(msg, cfg) ==
    [pre |-> "", line |-> FormatLogMessage(msg), post |-> "", minW |-> cfg.minLevel]

\* processMessageBatch: what is appended to consoleBuffer for one record
ConsoleLine(msg, cfg) ==
    [pre |-> IF cfg.useColors THEN GetLevelColor(msg.level) ELSE "",
     line |-> FormatLogMessage(msg),
     post |-> IF cfg.useColors THEN COLOR_RESET ELSE "",
     minW |-> cfg.minLevel]

(* ---------------- File sink ---------------- *)
\* directory_iterator over log_dir
DirEntries(fs) == {n \in FileNames : fs[n].exists}

\* cleanOldLogs: the entries collected in logFiles
ExistingFiles(fs) == {n \in DirEntries(fs) : Matches(n)}

\* std::ofstream::open(name, std::ios::app) that succeeds
OpenAppend(fs, t) ==
    IF fs[ActiveFile].exists THEN fs
    ELSE [fs EXCEPT ![ActiveFile] = [exists |-> TRUE, lines |-> <<>>, mtime |-> t]]

\* mutant: cleanOldLogs removes nothing
CleanNothing(fs, maxFiles) == fs

\* mutant: cleanOldLogs stops removing one file early
CleanOneTooMany(fs, maxFiles) ==
    LET files == ExistingFiles(fs)
        Newer(n) == {m \in files : fs[m].mtime > fs[n].mtime}
        keep == {n \in files : Cardinality(Newer(n)) <= maxFiles}
    IN [n \in FileNames |-> IF n \in files \ keep THEN NoFile ELSE fs[n]]

\* cleanOldLogs: the files that stay, the maxFiles most recently modified
CleanOldLogs(fs, maxFiles) ==
    LET files == ExistingFiles(fs)
        Newer(n) == {m \in files : fs[m].mtime > fs[n].mtime}
        keep == {n \in files : Cardinality(Newer(n)) < maxFiles}
    IN [n \in FileNames |-> IF n \in files \ keep THEN NoFile ELSE fs[n]]

\* rotateLogFileIfNeeded, after its early return: rename, reopen, clean
RotateFiles(fs, cfg, now, t) ==
    LET renamed == IF fs[ActiveFile].exists
                   THEN [fs EXCEPT ![now] = fs[ActiveFile], ![ActiveFile] = NoFile]
                   ELSE fs
        reopened == OpenAppend(renamed, t)
    IN CleanOldLogs(reopened, cfg.maxFiles)

\* mutant: the early return of rotateLogFileIfNeeded taken at the limit too
NeedsRotationLate(cfg, size) == cfg.fileOutput /\ size > cfg.maxFileSize

\* rotateLogFileIfNeeded: the early return
NeedsRotation(cfg, size) == cfg.fileOutput /\ size >= cfg.maxFileSize

\* logFile.write: the stream buffer after the write; a stream that is not
\* open takes nothing
WriteFile(open, held, buf) == IF open THEN held \o buf ELSE held

\* logFile.flush / the flush of logFile.close: the buffered lines reach the
\* active file
FlushFile(fs, held, t) ==
    IF held # <<>> /\ fs[ActiveFile].exists
    THEN [fs EXCEPT ![ActiveFile].lines = @ \o held, ![ActiveFile].mtime = t]
    ELSE fs

\* the lines of the active file, those in the stream buffer included
ActiveLines(fs, held) == Len(fs[ActiveFile].lines) + Len(held)

\* buffering of standard output: line buffered when it is a terminal, fully
\* buffered when it is a pipe or a file
StdoutModes == {"line", "full"}

\* std::cout.write of lines that end with a newline, no flush requested:
\* what stays in the buffer of standard output
CoutWrite(held, buf, mode) == IF mode = "line" THEN <<>> ELSE held \o buf

\* mutant: processAndClearBatch without batchBuffer.clear()
KeptBatch == batch

\* processAndClearBatch: batchBuffer.clear()
ClearedBatch == <<>>

\* processMessageBatch followed by the clears of processAndClearBatch
ProcessAndClearBatch ==
    LET fileBuffer == IF config.fileOutput
                      THEN [i \in 1 .. Len(batch) |-> FileLine(batch[i], config)]
                      ELSE <<>>
        consoleBuffer == IF config.consoleOutput
                         THEN [i \in 1 .. Len(batch) |-> ConsoleLine(batch[i], config)]
                         ELSE <<>>
        doFile == config.fileOutput /\ fileBuffer # <<>>
        held == WriteFile(logFileOpen, unflushed, fileBuffer)
        size == currentFileSize + Len(fileBuffer) * LineBytes
        rotate == doFile /\ NeedsRotation(config, size)
    IN /\ batch' = ClearedBatch
       /\ IF batch = <<>>
          THEN UNCHANGED <<logFileOpen, currentFileSize, fsys, mtick, written, console,
                           coutHeld,
                           unflushed, fileHist>>
          ELSE /\ written' = IF doFile /\ logFileOpen THEN written \o fileBuffer ELSE written
               /\ console' = console \o consoleBuffer
               /\ coutHeld' = CoutWrite(coutHeld, consoleBuffer, stdoutMode)
               /\ mtick' = IF rotate THEN mtick + 2 ELSE mtick
               /\ fileHist' =
                     [peak |-> IF doFile /\ logFileOpen
                               THEN Max(fileHist.peak, ActiveLines(fsys, held))
                               ELSE fileHist.peak,
                      rotations |-> IF rotate THEN fileHist.rotations + 1
                                    ELSE fileHist.rotations]
               /\ IF doFile
                  THEN IF rotate
                       THEN /\ fsys' = RotateFiles(FlushFile(fsys, held, mtick + 1),
                                                   config, clock, mtick + 2)
                            /\ unflushed' = <<>>
                            /\ logFileOpen' = TRUE
                            /\ currentFileSize' = 0
                       ELSE /\ unflushed' = held
                            /\ currentFileSize' = size
                            /\ UNCHANGED <<fsys, logFileOpen>>
                  ELSE UNCHANGED <<fsys, logFileOpen, currentFileSize, unflushed>>
       /\ UNCHANGED <<clock, io, stdoutMode, probe>>

(* ---------------- Producer side ---------------- *)
\* mutant: log without the level test
FilteredNever(lvl, cfg) == FALSE

\* mutant: the level test of Logger::log lets the level just below
\* min_level through
FilteredWellBelow(lvl, cfg) == lvl + 1 < cfg.minLevel

\* Logger::log, the level test
Filtered(lvl, cfg) == lvl < cfg.minLevel

\* mutant: currentModule as one string shared by all threads, read through
\* the main thread's
SharedModuleName(p) == moduleName[Main]

\* Context::getThreadLocalModuleName: the calling thread's currentModule
GetThreadLocalModuleName(p) == moduleName[p]

\* the LogMessage built by log()
MkMsg(p, lvl) ==
    [prod |-> p, seq |-> submitted[p] + 1, level |-> lvl, minAt |-> config.minLevel,
     module |-> GetThreadLocalModuleName(p)]

\* mutant: getThreadLocalBuffer without the test of localBuffer
AfterBuildAlwaysNew(p) == "getbuf"

\* log() after the record is built: getThreadLocalBuffer creates and
\* registers the ring on the first call, and is a thread-local read afterwards
AfterBuild(p) == IF exists[p] THEN "push" ELSE "getbuf"

\* return of log(); the log call inside initialize ends the call_once body
LogReturn(p) ==
    /\ pc' = [pc EXCEPT ![p] = "idle"]
    /\ IF initOwner = p
       THEN initFlag' = "done" /\ initOwner' = -1
       ELSE UNCHANGED <<initFlag, initOwner>>

\* LOG_xxx: getInstance() and the head of Logger::log
LogCall(p, lvl) ==
    /\ pc[p] = "idle"
    /\ instance = "live"
    /\ initOwner # p
    /\ budget.log > 0
    /\ budget' = [budget EXCEPT !.log = @ - 1]
    /\ history' = [history EXCEPT ![p] = Append(@, lvl)]
    /\ modHist' = IF Filtered(lvl, config) THEN modHist
                  ELSE [modHist EXCEPT ![p] = Append(@, moduleName[p])]
    /\ IF Filtered(lvl, config)
       THEN UNCHANGED <<pc, cur>>
       ELSE /\ cur' = [cur EXCEPT ![p] = MkMsg(p, lvl)]
            /\ pc' = [pc EXCEPT ![p] = AfterBuild(p)]
    /\ UNCHANGED <<submitted, stats, ringVars, instance, initFlag, initOwner,
                   created, spawned, firstCfg, config, running, destroyed,
                   atStop, moduleName, configHolder, pendingCfg, sinkVars, consVars>>

\* LOG_xxx while Logger::instance is null: getInstance() throws
LogNotInitialized(p) ==
    /\ pc[p] = "idle"
    /\ instance = "null"
    /\ budget.log > 0
    /\ budget' = [budget EXCEPT !.log = @ - 1]
    /\ UNCHANGED <<pc, cur, submitted, stats, ringVars, lifeVars, sinkVars, consVars>>

\* getThreadLocalBuffer, first call of the thread: make_shared, and
\* registerBuffer, which waits for registryMutex and holds it for the push_back
GetThreadLocalBuffer(p) ==
    /\ pc[p] = "getbuf"
    /\ registryMutex = Unlocked
    /\ pc' = [pc EXCEPT ![p] = "push"]
    /\ exists' = [exists EXCEPT ![p] = TRUE]
    /\ isActive' = [isActive EXCEPT ![p] = TRUE]
    /\ registry' = RegisterBuffer(registry, p)
    /\ UNCHANGED <<budget, cur, submitted, stats, slots, head, tail, enq, deq,
                   registryMutex, lifeVars, sinkVars, consVars>>

\* push: one iteration of the loop up to the test: load tail, load head,
\* compare; without room the thread yields and comes back to the test
PushTry(p) ==
    /\ pc[p] \in {"push", "push_retry"}
    /\ pc' = [pc EXCEPT ![p] = IF PushHasRoom(p) THEN "push_write" ELSE "push_retry"]
    /\ UNCHANGED <<budget, cur, submitted, stats, ringVars, lifeVars, sinkVars, consVars>>

\* push: construct the record in messages[current_tail]
PushWrite(p) ==
    /\ pc[p] = "push_write"
    /\ slots' = [slots EXCEPT ![p][PushIndex(p)] = cur[p]]
    /\ pc' = [pc EXCEPT ![p] = "push_store"]
    /\ UNCHANGED <<budget, cur, submitted, stats, exists, head, tail, isActive,
                   enq, deq, registry, registryMutex, lifeVars, sinkVars, consVars>>

\* push: tail.store(next_tail, release); then updateThreadStats and the
\* return of log()
PushStore(p) ==
    /\ pc[p] = "push_store"
    /\ tail' = [tail EXCEPT ![p] = NextIndex(tail[p])]
    /\ enq' = [enq EXCEPT ![p] = @ + 1]
    /\ stats' = [stats EXCEPT ![p] = @ + 1]
    /\ submitted' = [submitted EXCEPT ![p] = @ + 1]
    /\ cur' = [cur EXCEPT ![p] = NoMsg]
    /\ LogReturn(p)
    /\ UNCHANGED <<budget, exists, slots, head, isActive, deq, registry, registryMutex,
                   instance, created, spawned, firstCfg, config, running,
                   destroyed, atStop, history, moduleName, modHist, configHolder, pendingCfg,
                   sinkVars, consVars>>

\* thread exit, ~ThreadCleanup: isActive.store(false)
ThreadExit(p) ==
    /\ p \in Workers
    /\ pc[p] = "idle"
    /\ initOwner # p
    /\ IF exists[p]
       THEN /\ isActive' = [isActive EXCEPT ![p] = FALSE]
            /\ pc' = [pc EXCEPT ![p] = "exit_unreg"]
       ELSE /\ pc' = [pc EXCEPT ![p] = "exited"]
            /\ UNCHANGED isActive
    /\ UNCHANGED <<budget, cur, submitted, stats, exists, slots, head, tail,
                   enq, deq, registry, registryMutex, lifeVars, sinkVars, consVars>>

\* thread exit, ~ThreadCleanup: bufferRegistry.unregisterBuffer(buffer)
ThreadExitUnregister(p) ==
    /\ pc[p] = "exit_unreg"
    /\ registryMutex = Unlocked
    /\ registry' = UnregisterBuffer(registry, p)
    /\ pc' = [pc EXCEPT ![p] = "exited"]
    /\ UNCHANGED <<budget, cur, submitted, stats, exists, slots, head, tail,
                   isActive, enq, deq, registryMutex, lifeVars, sinkVars, consVars>>

\* Logger::setModuleName: assigns the calling thread's currentModule
SetModuleName(p, name) ==
    /\ pc[p] = "idle"
    /\ instance = "live"
    /\ initOwner # p
    /\ budget.setmod > 0
    /\ budget' = [budget EXCEPT !.setmod = @ - 1]
    /\ moduleName' = [moduleName EXCEPT ![p] = name]
    /\ UNCHANGED <<pc, cur, submitted, stats, ringVars, instance, initFlag,
                   initOwner, created, spawned, firstCfg, config, running,
                   destroyed, atStop, history, modHist, configHolder, pendingCfg,
                   sinkVars, consVars>>

\* Logger::setLogLevel
SetLogLevel(p, lvl) ==
    /\ pc[p] = "idle"
    /\ instance = "live"
    /\ initOwner # p
    /\ budget.setlvl > 0
    /\ configHolder = -1
    /\ budget' = [budget EXCEPT !.setlvl = @ - 1]
    /\ config' = [config EXCEPT !.minLevel = lvl]
    /\ UNCHANGED <<pc, cur, submitted, stats, ringVars, instance, initFlag,
                   initOwner, created, spawned, firstCfg, running,
                   destroyed, atStop, history, moduleName, modHist, configHolder, pendingCfg,
                   sinkVars, consVars>>

\* Logger::configure configure: the files of log_dir after logFile.open
ConfigureFiles(fs, cfg, ok, t) == IF cfg.fileOutput /\ ok THEN OpenAppend(fs, t) ELSE fs

\* Logger::configure called on the running logger: unique_lock taken
ConfigureLock(p, cfg) ==
    /\ pc[p] = "idle"
    /\ instance = "live"
    /\ initOwner # p
    /\ budget.configure > 0
    /\ configHolder = -1
    /\ budget' = [budget EXCEPT !.configure = @ - 1]
    /\ configHolder' = p
    /\ pendingCfg' = cfg
    /\ pc' = [pc EXCEPT ![p] = "cfg_close"]
    /\ UNCHANGED <<cur, submitted, stats, ringVars, instance, initFlag, initOwner,
                   created, spawned, firstCfg, config, running, destroyed, atStop,
                   history, moduleName, modHist, sinkVars, consVars>>

\* configure: logFile.close() if the file is open
ConfigureClose(p) ==
    /\ pc[p] = "cfg_close"
    /\ IF logFileOpen
       THEN /\ fsys' = FlushFile(fsys, unflushed, mtick + 1)
            /\ unflushed' = <<>>
            /\ mtick' = mtick + 1
            /\ logFileOpen' = FALSE
       ELSE UNCHANGED <<fsys, unflushed, mtick, logFileOpen>>
    /\ pc' = [pc EXCEPT ![p] = "cfg_limits"]
    /\ UNCHANGED <<budget, cur, submitted, stats, ringVars, lifeVars, currentFileSize,
                   clock, written, console, coutHeld, stdoutMode, probe, fileHist, io, consVars>>

\* configure: config = cfg, the members before the output flags
ConfigureAssignLimits(p) ==
    /\ pc[p] = "cfg_limits"
    /\ config' = [config EXCEPT !.maxFileSize = pendingCfg.maxFileSize,
                                !.maxFiles = pendingCfg.maxFiles,
                                !.minLevel = pendingCfg.minLevel]
    /\ pc' = [pc EXCEPT ![p] = "cfg_flags"]
    /\ UNCHANGED <<budget, cur, submitted, stats, ringVars, instance, initFlag,
                   initOwner, created, spawned, firstCfg, running, destroyed, atStop,
                   history, moduleName, modHist, configHolder, pendingCfg, sinkVars, consVars>>

\* configure: config = cfg, the output flags
ConfigureAssignFlags(p) ==
    /\ pc[p] = "cfg_flags"
    /\ config' = pendingCfg
    /\ pc' = [pc EXCEPT ![p] = "cfg_open"]
    /\ UNCHANGED <<budget, cur, submitted, stats, ringVars, instance, initFlag,
                   initOwner, created, spawned, firstCfg, running, destroyed, atStop,
                   history, moduleName, modHist, configHolder, pendingCfg, sinkVars, consVars>>

\* configure: logFile.open in append mode, currentFileSize = file_size, the
\* lock released; ok is the outcome of the open, a failure throws
ConfigureOpen(p, ok) ==
    /\ pc[p] = "cfg_open"
    /\ ok \/ config.fileOutput
    /\ IF config.fileOutput
       THEN /\ fsys' = ConfigureFiles(fsys, config, ok, mtick + 1)
            /\ mtick' = mtick + 1
            /\ logFileOpen' = ok
            /\ currentFileSize' = IF ok THEN Len(fsys'[ActiveFile].lines) * LineBytes
                                  ELSE currentFileSize
       ELSE UNCHANGED <<fsys, mtick, logFileOpen, currentFileSize>>
    /\ configHolder' = -1
    /\ pendingCfg' = NoConfig
    /\ pc' = [pc EXCEPT ![p] = "idle"]
    /\ UNCHANGED <<budget, cur, submitted, stats, ringVars, instance, initFlag,
                   initOwner, created, spawned, firstCfg, config, running, destroyed,
                   atStop, history, moduleName, modHist, clock, written, console, coutHeld, stdoutMode, probe, unflushed, fileHist, io,
                   consVars>>

\* Logger::configure, called by thread p with argument cfg
Configure(p) ==
    \/ \E cfg \in ReConfigs : ConfigureLock(p, cfg)
    \/ ConfigureClose(p)
    \/ ConfigureAssignLimits(p)
    \/ ConfigureAssignFlags(p)
    \/ \E ok \in BOOLEAN : ConfigureOpen(p, ok)

(* ---------------- Lifecycle ---------------- *)
\* Logger::initialize, the call that runs the call_once body: make_unique,
\* configure(cfg), start of the consumer thread, the INFO record.  ok is
\* the outcome of opening the log file; a failure leaves the once flag unset
Initialize(p, cfg, ok) ==
    /\ pc[p] = "idle"
    /\ budget.init > 0
    /\ initFlag = "idle"
    /\ ok \/ cfg.fileOutput
    /\ budget' = [budget EXCEPT !.init = @ - 1]
    /\ instance' = "live"
    /\ created' = created + 1
    /\ firstCfg' = IF firstCfg = NoConfig THEN cfg ELSE firstCfg
    /\ config' = cfg
    /\ running' = TRUE
    /\ stats' = [q \in Threads |-> 0]
    /\ fsys' = ConfigureFiles(fsys, cfg, ok, mtick + 1)
    /\ mtick' = mtick + 1
    /\ logFileOpen' = (cfg.fileOutput /\ ok)
    /\ currentFileSize' = IF cfg.fileOutput /\ ok
                          THEN Len(fsys'[ActiveFile].lines) * LineBytes
                          ELSE 0
    /\ history' = IF ok THEN [history EXCEPT ![p] = Append(@, INFO)] ELSE history
    /\ modHist' = IF ok /\ ~Filtered(INFO, cfg)
                  THEN [modHist EXCEPT ![p] = Append(@, moduleName[p])]
                  ELSE modHist
    /\ IF ok
       THEN /\ spawned' = spawned + 1
            /\ cpc' = "loop"
            /\ IF Filtered(INFO, cfg)
               THEN /\ initFlag' = "done"
                    /\ UNCHANGED <<pc, cur, initOwner>>
               ELSE /\ initFlag' = "running"
                    /\ initOwner' = p
                    /\ cur' = [cur EXCEPT ![p] =
                                 [prod |-> p, seq |-> submitted[p] + 1,
                                  level |-> INFO, minAt |-> cfg.minLevel,
                                  module |-> GetThreadLocalModuleName(p)]]
                    /\ pc' = [pc EXCEPT ![p] = AfterBuild(p)]
       ELSE UNCHANGED <<spawned, cpc, initFlag, initOwner, pc, cur>>
    /\ UNCHANGED <<submitted, ringVars, destroyed, atStop, moduleName, configHolder,
                   pendingCfg,
                   clock, written, console, coutHeld, stdoutMode, probe, unflushed, fileHist, io,
                   snap, idx, cnt, processed, nearly, sawRecord, cmsg, batch>>

\* Logger::initialize once the call_once flag is set: returns at once
InitializeAgain(p, cfg) ==
    /\ pc[p] = "idle"
    /\ budget.init > 0
    /\ initFlag = "done"
    /\ budget' = [budget EXCEPT !.init = @ - 1]
    /\ UNCHANGED <<pc, cur, submitted, stats, ringVars, lifeVars, sinkVars, consVars>>

\* Logger::destroyInstance: instance.reset(), ~Logger stores running = false
DestroyInstance(p) ==
    /\ pc[p] = "idle"
    /\ instance = "live"
    /\ initOwner = -1
    /\ budget.destroy > 0
    /\ \A q \in Threads \ {p} : Quiescent(q)
    /\ budget' = [budget EXCEPT !.destroy = @ - 1]
    /\ instance' = "null"
    /\ running' = FALSE
    /\ atStop' = {registry[i] : i \in 1 .. Len(registry)}
    /\ pc' = [pc EXCEPT ![p] = "join"]
    /\ UNCHANGED <<cur, submitted, stats, ringVars, initFlag, initOwner, created,
                   spawned, firstCfg, config, destroyed, history, moduleName, modHist, configHolder,
                   pendingCfg, sinkVars, consVars>>

\* ~Logger: loggerThread.join(), flush and close of the file, stats cleared
DestroyJoin(p) ==
    /\ pc[p] = "join"
    /\ cpc \in {"none", "exited"}
    /\ logFileOpen' = FALSE
    /\ fsys' = IF logFileOpen THEN FlushFile(fsys, unflushed, mtick + 1) ELSE fsys
    /\ unflushed' = <<>>
    /\ mtick' = mtick + 1
    /\ stats' = [q \in Threads |-> 0]
    /\ destroyed' = TRUE
    /\ pc' = [pc EXCEPT ![p] = "idle"]
    /\ UNCHANGED <<budget, cur, submitted, ringVars, instance, initFlag, initOwner,
                   created, spawned, firstCfg, config, running, atStop, history, moduleName, modHist,
                   configHolder, pendingCfg, currentFileSize, clock, written,
                   console, coutHeld, stdoutMode, probe, fileHist, io, consVars>>

(* ---------------- Consumer ---------------- *)
\* processLogs: maxMessagesPerBuffer
MaxMessagesPerBuffer(n) == BATCH_SIZE \div Max(n, 1)

\* mutant: the inner while loop without its two bounds
MayPopAlways(c, n, len) == TRUE

\* processLogs: the condition of the inner while loop, before pop
MayPop(c, n, len) == c < MaxMessagesPerBuffer(n) /\ len < BATCH_SIZE

\* processLogs: the for loop over the snapshot moves on, or is over
AfterBuffer(i, n, b, pr) ==
    IF i <= n THEN "buf"
    ELSE IF b # <<>> THEN "flush"
    ELSE IF ~pr THEN "sleep" ELSE "loop"

\* processLogs: does the loop over the snapshot skip this buffer
SkipBuffer(b) == ~isActive[b]

\* pop: msg = std::move(messages[current_head])
PopMove(b) ==
    /\ cmsg' = slots[b][PopIndex(b)]
    /\ slots' = [slots EXCEPT ![b][PopIndex(b)] = NoMsg]

\* mutant: the popped record is put at the front of the batch
PopStoreFront(b) ==
    /\ head' = [head EXCEPT ![b] = NextIndex(head[b])]
    /\ deq' = [deq EXCEPT ![b] = @ + 1]
    /\ batch' = <<cmsg>> \o batch
    /\ cmsg' = NoMsg

\* pop: head.store(next, release), and the push_back of the caller
PopStore(b) ==
    /\ head' = [head EXCEPT ![b] = NextIndex(head[b])]
    /\ deq' = [deq EXCEPT ![b] = @ + 1]
    /\ batch' = Append(batch, cmsg)
    /\ cmsg' = NoMsg

\* mutant: the main loop does not test the stop signal
KeepsRunningAlways == TRUE

\* processLogs: while (running.load(...))
KeepsRunning == running

\* processLogs: test of running; getAllBuffers takes registryMutex
ConsumerRound ==
    /\ cpc = "loop"
    /\ IF KeepsRunning
       THEN /\ registryMutex = Unlocked
            /\ registryMutex' = ConsumerThread
            /\ cpc' = "snap"
       ELSE /\ cpc' = "drain"
            /\ UNCHANGED registryMutex
    /\ UNCHANGED <<prodVars, exists, slots, head, tail, isActive, enq, deq, registry,
                   lifeVars, sinkVars, snap, idx, cnt, processed, nearly, sawRecord, cmsg, batch>>

\* processLogs: getAllBuffers copies the list and releases registryMutex
ConsumerSnapshot ==
    /\ cpc = "snap"
    /\ snap' = GetAllBuffers
    /\ registryMutex' = SnapshotUnlock
    /\ idx' = 1
    /\ processed' = FALSE
    /\ nearly' = FALSE
    /\ sawRecord' = FALSE
    /\ cpc' = AfterBuffer(1, Len(GetAllBuffers), batch, FALSE)
    /\ UNCHANGED <<prodVars, exists, slots, head, tail, isActive, enq, deq, registry,
                   lifeVars, sinkVars, cnt, cmsg, batch>>

\* processLogs: head of the for loop over the snapshot
ConsumerBuffer ==
    /\ cpc = "buf"
    /\ IF SkipBuffer(snap[idx])
       THEN /\ idx' = idx + 1
            /\ cpc' = AfterBuffer(idx + 1, Len(snap), batch, processed)
            /\ UNCHANGED <<cnt, nearly>>
       ELSE /\ nearly' = (nearly \/ IsNearlyFull(head[snap[idx]], tail[snap[idx]], BUFFER_SIZE))
            /\ cnt' = 0
            /\ cpc' = "pop"
            /\ UNCHANGED idx
    /\ sawRecord' = (sawRecord \/ head[snap[idx]] # tail[snap[idx]])
    /\ UNCHANGED <<prodVars, ringVars, lifeVars, sinkVars, snap, processed, cmsg, batch>>

\* processLogs: condition of the inner loop, with the index loads of pop
ConsumerPop ==
    /\ cpc = "pop"
    /\ IF MayPop(cnt, Len(snap), Len(batch)) /\ PopHasRecord(snap[idx])
       THEN /\ cpc' = "move"
            /\ UNCHANGED <<idx, cnt>>
       ELSE /\ idx' = idx + 1
            /\ cnt' = 0
            /\ cpc' = AfterBuffer(idx + 1, Len(snap), batch, processed)
    /\ UNCHANGED <<prodVars, ringVars, lifeVars, sinkVars, snap, processed,
                   nearly, sawRecord, cmsg, batch>>

ConsumerMove ==
    /\ cpc = "move"
    /\ PopMove(snap[idx])
    /\ cpc' = "store"
    /\ UNCHANGED <<prodVars, exists, head, tail, isActive, enq, deq, registry, registryMutex,
                   lifeVars, sinkVars, snap, idx, cnt, processed, nearly, sawRecord, batch>>

ConsumerStore ==
    /\ cpc = "store"
    /\ PopStore(snap[idx])
    /\ processed' = TRUE
    /\ cnt' = cnt + 1
    /\ cpc' = "pop"
    /\ UNCHANGED <<prodVars, exists, slots, tail, isActive, enq, registry, registryMutex,
                   lifeVars, sinkVars, snap, idx, nearly, sawRecord>>

\* processLogs: processAndClearBatch at the end of the round
ConsumerFlush ==
    /\ cpc = "flush"
    /\ ProcessAndClearBatch
    /\ IF processed
       THEN /\ cpc' = "loop"
            /\ snap' = <<>>
            /\ idx' = 0
            /\ processed' = FALSE
            /\ nearly' = FALSE
            /\ sawRecord' = FALSE
       ELSE /\ cpc' = "sleep"
            /\ UNCHANGED <<snap, idx, processed, nearly, sawRecord>>
    /\ UNCHANGED <<prodVars, ringVars, lifeVars, cnt, cmsg>>

\* processLogs: the adaptive sleep, end of the round
ConsumerSleep ==
    /\ cpc = "sleep"
    /\ cpc' = "loop"
    /\ snap' = <<>>
    /\ idx' = 0
    /\ processed' = FALSE
    /\ nearly' = FALSE
    /\ sawRecord' = FALSE
    /\ UNCHANGED <<prodVars, ringVars, lifeVars, sinkVars, cnt, cmsg, batch>>

\* drainAllBuffers: getAllBuffers takes registryMutex
DrainStart ==
    /\ cpc = "drain"
    /\ registryMutex = Unlocked
    /\ registryMutex' = ConsumerThread
    /\ cpc' = "dsnap"
    /\ UNCHANGED <<prodVars, exists, slots, head, tail, isActive, enq, deq, registry,
                   lifeVars, sinkVars, snap, idx, cnt, processed, nearly, sawRecord, cmsg, batch>>

\* drainAllBuffers: getAllBuffers copies the list and releases registryMutex
DrainSnapshot ==
    /\ cpc = "dsnap"
    /\ snap' = GetAllBuffers
    /\ registryMutex' = SnapshotUnlock
    /\ idx' = 1
    /\ cpc' = "dpop"
    /\ UNCHANGED <<prodVars, exists, slots, head, tail, isActive, enq, deq, registry,
                   lifeVars, sinkVars, cnt, processed, nearly, sawRecord, cmsg, batch>>

\* mutant: the loop of drainAllBuffers ends before it has visited a ring
DrainDoneAtOnce(i, n) == TRUE

\* drainAllBuffers: the for loop over the snapshot is over
DrainDone(i, n) == i > n

\* drainAllBuffers: loop over the snapshot, with the index loads of pop
DrainPop ==
    /\ cpc = "dpop"
    /\ IF DrainDone(idx, Len(snap))
       THEN /\ cpc' = "dfinal"
            /\ UNCHANGED idx
       ELSE IF PopHasRecord(snap[idx])
            THEN /\ cpc' = "dmove"
                 /\ UNCHANGED idx
            ELSE /\ idx' = idx + 1
                 /\ UNCHANGED cpc
    /\ UNCHANGED <<prodVars, ringVars, lifeVars, sinkVars, snap, cnt, processed,
                   nearly, sawRecord, cmsg, batch>>

DrainMove ==
    /\ cpc = "dmove"
    /\ PopMove(snap[idx])
    /\ cpc' = "dstore"
    /\ UNCHANGED <<prodVars, exists, head, tail, isActive, enq, deq, registry, registryMutex,
                   lifeVars, sinkVars, snap, idx, cnt, processed, nearly, sawRecord, batch>>

DrainStore ==
    /\ cpc = "dstore"
    /\ PopStore(snap[idx])
    /\ cpc' = IF Len(batch') >= DRAIN_BATCH THEN "dflush" ELSE "dpop"
    /\ UNCHANGED <<prodVars, exists, slots, tail, isActive, enq, registry, registryMutex,
                   lifeVars, sinkVars, snap, idx, cnt, processed, nearly, sawRecord>>

\* drainAllBuffers: processAndClearBatch inside the loop
DrainFlush ==
    /\ cpc = "dflush"
    /\ ProcessAndClearBatch
    /\ cpc' = "dpop"
    /\ UNCHANGED <<prodVars, ringVars, lifeVars, snap, idx, cnt, processed, nearly, sawRecord, cmsg>>

\* drainAllBuffers: the last processAndClearBatch
DrainFinal ==
    /\ cpc = "dfinal"
    /\ ProcessAndClearBatch
    /\ cpc' = "dsync"
    /\ snap' = <<>>
    /\ idx' = 0
    /\ UNCHANGED <<prodVars, ringVars, lifeVars, cnt, processed, nearly, sawRecord, cmsg>>

\* drainAllBuffers: the final logFile.flush(); the consumer thread ends
DrainSync ==
    /\ cpc = "dsync"
    /\ IF config.fileOutput /\ logFileOpen
       THEN /\ fsys' = FlushFile(fsys, unflushed, mtick + 1)
            /\ unflushed' = <<>>
            /\ mtick' = mtick + 1
       ELSE UNCHANGED <<fsys, unflushed, mtick>>
    /\ cpc' = "exited"
    /\ UNCHANGED <<prodVars, ringVars, lifeVars, logFileOpen, currentFileSize, clock,
                   written, console, coutHeld, stdoutMode, probe, fileHist, io, snap, idx, cnt, processed,
                   nearly, sawRecord, cmsg, batch>>

\* processLogs: the main loop
ConsumerRunning ==
    \/ ConsumerRound \/ ConsumerSnapshot \/ ConsumerBuffer \/ ConsumerPop
    \/ ConsumerMove
    \/ ConsumerStore \/ ConsumerFlush \/ ConsumerSleep

\* processLogs: drainAllBuffers after the main loop
ConsumerDraining ==
    \/ DrainStart \/ DrainSnapshot \/ DrainPop \/ DrainMove \/ DrainStore
    \/ DrainFlush \/ DrainFinal \/ DrainSync

Consumer == ConsumerRunning \/ ConsumerDraining

\* processMessageBatch whose rotation fails: std::filesystem::rename throws
\* filesystem_error after the batch was written and the file closed; nothing
\* between rename and the thread function catches it, so the exception
\* leaves processLogs and std::terminate ends the process
ConsumerIoError ==
    LET fileBuffer == [i \in 1 .. Len(batch) |-> FileLine(batch[i], config)]
        held == WriteFile(logFileOpen, unflushed, fileBuffer)
        size == currentFileSize + Len(fileBuffer) * LineBytes
    IN /\ cpc \in {"flush", "dflush", "dfinal"}
       /\ batch # <<>>
       /\ NeedsRotation(config, size)
       /\ fsys[ActiveFile].exists
       /\ written' = IF logFileOpen THEN written \o fileBuffer ELSE written
       /\ currentFileSize' = size
       /\ fileHist' = [fileHist EXCEPT
                          !.peak = IF logFileOpen
                                   THEN Max(@, ActiveLines(fsys, held)) ELSE @]
       /\ fsys' = FlushFile(fsys, held, mtick + 1)
       /\ unflushed' = <<>>
       /\ mtick' = mtick + 1
       /\ logFileOpen' = FALSE
       /\ io' = [errors |-> io.errors + 1, reported |-> io.reported,
                 terminated |-> TRUE]
       /\ cpc' = "terminated"
       /\ pc' = [p \in Threads |-> "terminated"]
       /\ UNCHANGED <<budget, cur, submitted, stats, ringVars, lifeVars, clock,
                      console, coutHeld, stdoutMode, probe, snap, idx, cnt, processed, nearly, sawRecord, cmsg, batch>>

\* the wall clock reaches the next second
Tick ==
    /\ clock < MaxClock
    /\ clock' = clock + 1
    /\ UNCHANGED <<prodVars, ringVars, lifeVars, logFileOpen, currentFileSize, fsys,
                   mtick, written, console, coutHeld, stdoutMode, probe, unflushed, fileHist, io, consVars>>

Producer(p) ==
    \/ GetThreadLocalBuffer(p) \/ PushTry(p) \/ PushWrite(p)
    \/ PushStore(p)

(* ---------------- Initial states ---------------- *)
\* state after process start: no Logger, no ring, an empty log_dir
InitProgram(participants, budgets, mode) ==
    /\ pc = [p \in Threads |-> IF p \in participants THEN "idle" ELSE "off"]
    /\ budget = budgets
    /\ cur = [p \in Threads |-> NoMsg]
    /\ submitted = [p \in Threads |-> 0]
    /\ exists = [p \in Threads |-> FALSE]
    /\ slots = [p \in Threads |-> [i \in 0 .. BUFFER_SIZE - 1 |-> NoMsg]]
    /\ head = [p \in Threads |-> 0]
    /\ tail = [p \in Threads |-> 0]
    /\ isActive = [p \in Threads |-> FALSE]
    /\ enq = [p \in Threads |-> 0]
    /\ deq = [p \in Threads |-> 0]
    /\ registry = <<>>
    /\ registryMutex = Unlocked
    /\ stats = [p \in Threads |-> 0]
    /\ instance = "null"
    /\ initFlag = "idle"
    /\ initOwner = -1
    /\ created = 0
    /\ spawned = 0
    /\ firstCfg = NoConfig
    /\ config = DefaultConfig
    /\ running = FALSE
    /\ logFileOpen = FALSE
    /\ currentFileSize = 0
    /\ fsys = [n \in FileNames |-> NoFile]
    /\ mtick = 0
    /\ clock = 0
    /\ written = <<>>
    /\ console = <<>>
    /\ coutHeld = <<>>
    /\ stdoutMode = mode
    /\ unflushed = <<>>
    /\ fileHist = [peak |-> 0, rotations |-> 0]
    /\ io = [errors |-> 0, reported |-> 0, terminated |-> FALSE]
    /\ configHolder = -1
    /\ pendingCfg = NoConfig
    /\ cpc = "none"
    /\ snap = <<>>
    /\ idx = 0
    /\ cnt = 0
    /\ processed = FALSE
    /\ nearly = FALSE
    /\ sawRecord = FALSE
    /\ cmsg = NoMsg
    /\ batch = <<>>
    /\ destroyed = FALSE
    /\ atStop = {}
    /\ history = [p \in Threads |-> <<>>]
    /\ moduleName = [p \in Threads |-> DefaultModule]
    /\ modHist = [p \in Threads |-> <<>>]

\* process start with standard output on a terminal
\* the state after construction, no call of isNearlyFull under observation
InitState(participants, budgets, mode) ==
    InitProgram(participants, budgets, mode) /\ probe = NoProbe

InitWith(participants, budgets) == InitState(participants, budgets, "line")

\* general scenario: the main thread initializes, logs and destroys;
\* workers log and exit
GeneralConfig == MkConfig(INFO, TRUE, TRUE, TRUE, BigFile, 5)

Init ==
    InitWith(0 .. NumWorkers,
             [log |-> MaxCalls, init |-> 1, setlvl |-> 0, destroy |-> 1, configure |-> 0,
              setmod |-> 0])

Next ==
    \/ Initialize(Main, GeneralConfig, TRUE)
    \/ \E p \in Threads : LogCall(p, INFO)
    \/ \E p \in Threads : Producer(p)
    \/ \E p \in Threads : ThreadExit(p)
    \/ \E p \in Threads : ThreadExitUnregister(p)
    \/ DestroyInstance(Main)
    \/ DestroyJoin(Main)
    \/ Consumer

Spec == Init /\ [][Next]_vars

\* ring scenario: one producer, more calls than the ring has slots
InitRing ==
    InitWith({Main}, [log |-> RingCalls, init |-> 1, setlvl |-> 0, destroy |-> 1,
                      configure |-> 0, setmod |-> 0])

NextRing ==
    \/ Initialize(Main, GeneralConfig, TRUE)
    \/ LogCall(Main, INFO)
    \/ Producer(Main)
    \/ DestroyInstance(Main)
    \/ DestroyJoin(Main)
    \/ Consumer

SpecRing == InitRing /\ [][NextRing]_vars

\* crowded scenario: more producers than BATCH_SIZE, none exits, the
\* Logger is not destroyed; each worker logs once, the main thread logs
\* until its ring is full; every thread that can take a step takes it
CrowdThreads == 0 .. BATCH_SIZE
CrowdCalls == BATCH_SIZE + BUFFER_SIZE - 1

InitCrowd ==
    InitWith(CrowdThreads,
             [log |-> CrowdCalls, init |-> 1, setlvl |-> 0, destroy |-> 0,
              configure |-> 0, setmod |-> 0])

NextCrowd ==
    \/ Initialize(Main, GeneralConfig, TRUE)
    \/ \E p \in {q \in CrowdThreads : q = Main \/ ~exists[q]} : LogCall(p, INFO)
    \/ \E p \in CrowdThreads : Producer(p)
    \/ ConsumerRunning

SpecCrowd ==
    /\ InitCrowd
    /\ [][NextCrowd]_vars
    /\ WF_vars(ConsumerRunning)
    /\ \A p \in CrowdThreads : WF_vars(Producer(p))

\* level scenario: min_level is WARNING and is never changed; the main
\* thread and the workers log at levels on both sides of it
LevelConfig == MkConfig(WARNING, TRUE, TRUE, TRUE, BigFile, 5)

InitLevel ==
    InitWith(0 .. NumWorkers,
             [log |-> MaxCalls, init |-> 1, setlvl |-> 0, destroy |-> 1, configure |-> 0,
              setmod |-> 0])

NextLevel ==
    \/ Initialize(Main, LevelConfig, TRUE)
    \/ \E p \in Threads : \E lvl \in LogLevels : LogCall(p, lvl)
    \/ \E p \in Threads : Producer(p)
    \/ \E p \in Threads : ThreadExit(p)
    \/ \E p \in Threads : ThreadExitUnregister(p)
    \/ DestroyInstance(Main)
    \/ DestroyJoin(Main)
    \/ Consumer

SpecLevel == InitLevel /\ [][NextLevel]_vars

\* set_log_level scenario: the main thread logs at both levels and changes
\* min_level while records are in its ring
InitSetLevel ==
    InitWith({Main},
             [log |-> MaxCalls, init |-> 1, setlvl |-> MaxSetLevel, destroy |-> 1, configure |-> 0,
              setmod |-> 0])

NextSetLevel ==
    \/ Initialize(Main, GeneralConfig, TRUE)
    \/ \E lvl \in LogLevels : LogCall(Main, lvl)
    \/ \E lvl \in LogLevels : SetLogLevel(Main, lvl)
    \/ Producer(Main)
    \/ DestroyInstance(Main)
    \/ DestroyJoin(Main)
    \/ Consumer

SpecSetLevel == InitSetLevel /\ [][NextSetLevel]_vars

\* initialization scenario: the main thread and the workers call
\* initialize with different configurations; opening the log file may fail
QuietConfig == MkConfig(WARNING, FALSE, TRUE, FALSE, BigFile, 5)
InitConfigs == {GeneralConfig, QuietConfig}

InitInit ==
    InitWith(0 .. NumWorkers,
             [log |-> 1, init |-> MaxInits, setlvl |-> 0, destroy |-> 0, configure |-> 0,
              setmod |-> 0])

NextInit ==
    \/ \E p \in Threads : \E cfg \in InitConfigs : \E ok \in BOOLEAN :
          Initialize(p, cfg, ok)
    \/ \E p \in Threads : \E cfg \in InitConfigs : InitializeAgain(p, cfg)
    \/ \E p \in Threads : LogNotInitialized(p)
    \/ \E p \in Threads : LogCall(p, INFO)
    \/ \E p \in Threads : Producer(p)
    \/ ConsumerRunning

SpecInit == InitInit /\ [][NextInit]_vars

\* rotation scenario: one producer, a file limit of one line, retention of
\* one or of three files, the wall clock advancing between rotations
RotateMaxFiles == {1, 3}
RotateConfigs == {MkConfig(INFO, FALSE, TRUE, FALSE, SmallFile, mf) : mf \in RotateMaxFiles}

InitRotate ==
    InitWith({Main}, [log |-> MaxCalls, init |-> 1, setlvl |-> 0, destroy |-> 1, configure |-> 0,
              setmod |-> 0])

NextRotate ==
    \/ \E cfg \in RotateConfigs : Initialize(Main, cfg, TRUE)
    \/ LogCall(Main, INFO)
    \/ Producer(Main)
    \/ Tick
    \/ DestroyInstance(Main)
    \/ DestroyJoin(Main)
    \/ Consumer

SpecRotate == InitRotate /\ [][NextRotate]_vars

\* rollover scenario: as the rotation scenario with a file limit of two
\* lines, so that some writes stay below the limit and others reach it
RolloverConfigs ==
    {MkConfig(INFO, FALSE, TRUE, FALSE, MediumFile, mf) : mf \in RotateMaxFiles}

NextRollover ==
    \/ \E cfg \in RolloverConfigs : Initialize(Main, cfg, TRUE)
    \/ LogCall(Main, INFO)
    \/ Producer(Main)
    \/ Tick
    \/ DestroyInstance(Main)
    \/ DestroyJoin(Main)
    \/ Consumer

SpecRollover == InitRotate /\ [][NextRollover]_vars

\* another program puts a file of its own into log_dir before the logger
\* is initialized
PlaceFile(n) ==
    /\ instance = "null"
    /\ created = 0
    /\ ~fsys[n].exists
    /\ fsys' = [fsys EXCEPT ![n] = [exists |-> TRUE, lines |-> <<>>, mtime |-> mtick + 1]]
    /\ mtick' = mtick + 1
    /\ UNCHANGED <<prodVars, ringVars, lifeVars, logFileOpen, currentFileSize, clock,
                   written, console, coutHeld, stdoutMode, probe, unflushed, fileHist, io,
                   consVars>>

\* cleanup scenario: as the rotation scenario with retention of two files
\* and with files of other programs in log_dir
CleanConfig == MkConfig(INFO, FALSE, TRUE, FALSE, SmallFile, FewFiles)

NextClean ==
    \/ \E n \in OtherFiles : PlaceFile(n)
    \/ Initialize(Main, CleanConfig, TRUE)
    \/ LogCall(Main, INFO)
    \/ Producer(Main)
    \/ Tick
    \/ DestroyInstance(Main)
    \/ DestroyJoin(Main)
    \/ Consumer

SpecClean == InitRotate /\ [][NextClean]_vars

\* isNearlyFull called on the ring under observation
CallIsNearlyFull ==
    /\ probe.cap > 0
    /\ probe.size < 0
    /\ probe' = [probe EXCEPT
                    !.size = RingSize(probe.head, probe.tail, probe.cap),
                    !.nearly = IsNearlyFull(probe.head, probe.tail, probe.cap)]
    /\ UNCHANGED <<prodVars, ringVars, lifeVars, logFileOpen, currentFileSize, fsys,
                   mtick, clock, written, console, coutHeld, stdoutMode, unflushed,
                   fileHist, io, consVars>>

\* ring scenario of isNearlyFull: a ring of every capacity with every pair
\* of indices, no logger running
InitNearlyFull ==
    /\ InitProgram({}, [log |-> 0, init |-> 0, setlvl |-> 0, destroy |-> 0,
                         configure |-> 0, setmod |-> 0], "line")
    /\ \E c \in RingCapacities : \E h, t \in 0 .. c - 1 : probe = ProbeOf(c, h, t)

NextNearlyFull == CallIsNearlyFull

SpecNearlyFull == InitNearlyFull /\ [][NextNearlyFull]_vars

\* re-initialization scenario: the main thread calls initialize, logs,
\* calls destroyInstance and then initialize again; opening the log file
\* may fail
InitReinit ==
    InitWith({Main},
             [log |-> MaxCalls, init |-> MaxInits, setlvl |-> 0, destroy |-> 1,
              configure |-> 0, setmod |-> 0])

NextReinit ==
    \/ \E cfg \in InitConfigs : \E ok \in BOOLEAN : Initialize(Main, cfg, ok)
    \/ \E cfg \in InitConfigs : InitializeAgain(Main, cfg)
    \/ LogNotInitialized(Main)
    \/ LogCall(Main, WARNING)
    \/ Producer(Main)
    \/ DestroyInstance(Main)
    \/ DestroyJoin(Main)
    \/ Consumer

SpecReinit == InitReinit /\ [][NextReinit]_vars

\* rotation scenario in which a rename of the active file may fail
NextIoError == NextRotate \/ ConsumerIoError

SpecIoError == InitRotate /\ [][NextIoError]_vars

\* colour scenario: every combination of consoleOutput, fileOutput and
\* useColors, one producer logging at two levels, then destroy
ColorConfigs ==
    {MkConfig(INFO, con, fil, col, BigFile, DefaultConfig.maxFiles) :
        con \in BOOLEAN, fil \in BOOLEAN, col \in BOOLEAN}

InitColors ==
    InitWith({Main}, [log |-> MaxCalls, init |-> 1, setlvl |-> 0, destroy |-> 1, configure |-> 0,
              setmod |-> 0])

NextColors ==
    \/ \E cfg \in ColorConfigs : Initialize(Main, cfg, TRUE)
    \/ \E lvl \in LogLevels : LogCall(Main, lvl)
    \/ Producer(Main)
    \/ DestroyInstance(Main)
    \/ DestroyJoin(Main)
    \/ Consumer

SpecColors == InitColors /\ [][NextColors]_vars

\* reconfiguration scenario: the main thread calls configure on the running
\* logger while a worker logs and the consumer writes
ConfigureThreads == 0 .. NumWorkers

InitConfigure ==
    InitWith(ConfigureThreads,
             [log |-> MaxCalls, init |-> 1, setlvl |-> 0, destroy |-> 1,
              configure |-> MaxConfigure, setmod |-> 0])

NextConfigure ==
    \/ Initialize(Main, GeneralConfig, TRUE)
    \/ \E p \in ConfigureThreads \ {Main} : LogCall(p, WARNING)
    \/ \E p \in ConfigureThreads : Producer(p)
    \/ Configure(Main)
    \/ DestroyInstance(Main)
    \/ DestroyJoin(Main)
    \/ Consumer

SpecConfigure == InitConfigure /\ [][NextConfigure]_vars

\* module-name scenario: the main thread and the workers set their module
\* names between log calls
ModuleThreads == 0 .. NumWorkers

InitModule ==
    InitWith(ModuleThreads,
             [log |-> MaxCalls, init |-> 1, setlvl |-> 0, destroy |-> 1,
              configure |-> 0, setmod |-> MaxSetModule])

NextModule ==
    \/ Initialize(Main, GeneralConfig, TRUE)
    \/ \E p \in ModuleThreads : \E name \in ModuleNames : SetModuleName(p, name)
    \/ \E p \in ModuleThreads : LogCall(p, INFO)
    \/ \E p \in ModuleThreads : Producer(p)
    \/ DestroyInstance(Main)
    \/ DestroyJoin(Main)
    \/ Consumer

SpecModule == InitModule /\ [][NextModule]_vars

\* console scenario: standard output is a terminal, a pipe or a file; the
\* main thread logs with consoleOutput on, then destroys the logger
InitConsole ==
    \E mode \in StdoutModes :
        InitState({Main},
                  [log |-> MaxCalls, init |-> 1, setlvl |-> 0, destroy |-> 1,
                   configure |-> 0, setmod |-> 0], mode)

NextConsole ==
    \/ Initialize(Main, GeneralConfig, TRUE)
    \/ \E lvl \in LogLevels : LogCall(Main, lvl)
    \/ Producer(Main)
    \/ DestroyInstance(Main)
    \/ DestroyJoin(Main)
    \/ Consumer

SpecConsole == InitConsole /\ [][NextConsole]_vars

(* ---------------- Claims ---------------- *)
RECURSIVE SumOver(_, _)
SumOver(f, S) ==
    IF S = {} THEN 0
    ELSE LET x == CHOOSE y \in S : TRUE IN f[x] + SumOver(f, S \ {x})

\* log calls that enqueued a record and returned
TotalSubmitted == SumOver(submitted, Threads)

\* lines held by the active file and the rotated files
TotalFileLines ==
    SumOver([n \in FileNames |-> Len(fsys[n].lines)], ExistingFiles(fsys))

InRegistry(p) == \E i \in 1 .. Len(registry) : registry[i] = p

RingEmpty(p) == head[p] = tail[p]

\* the lines of producer p in an output stream, as record numbers
LinesOf(out, p) ==
    LET mine == SelectSeq(out, LAMBDA l : l.line.prod = p)
    IN [i \in 1 .. Len(mine) |-> mine[i].line.seq]

\* C1: once destroy_instance has returned, the files hold one line per log
\* call that enqueued a record, and no record is left in any ring.
C1_NoLossAtShutdown ==
    destroyed => (TotalFileLines = TotalSubmitted /\ \A p \in Threads : RingEmpty(p))

\* the lines of each producer are in an output stream in submission order
ProducerOrdered(out) ==
    \A i, j \in 1 .. Len(out) :
        (i < j /\ out[i].line.prod = out[j].line.prod)
            => out[i].line.seq < out[j].line.seq

\* C2: in the file stream and in the console stream the records of each
\* producer appear in the order that producer submitted them.
C2_PerProducerFIFO == ProducerOrdered(written) /\ ProducerOrdered(console)

\* two records of one producer in the file stream, with a record of another
\* producer between them
C2_Witness ==
    \E i, j, k \in 1 .. Len(written) :
        /\ i < j /\ j < k
        /\ written[i].line.prod = written[k].line.prod
        /\ written[j].line.prod # written[i].line.prod

\* C3: the ring of an exited producer leaves the registry only once it is
\* empty, and its records are all in the file stream when the consumer ends.
C3_ExitedRingDrained ==
    /\ \A p \in Threads : (exists[p] /\ ~InRegistry(p)) => RingEmpty(p)
    /\ cpc = "exited" =>
          \A p \in Threads : pc[p] = "exited" => Len(LinesOf(written, p)) = submitted[p]

\* C4: every ring that was registered when the stop signal was given is
\* empty when the consumer thread has ended, also when its producer
\* exited in between.
C4_FinalDrainCoversUnregistered ==
    cpc = "exited" => \A p \in atStop : RingEmpty(p)

\* the record numbers of producer p held by its ring, by the consumer, or
\* already written to a sink
Held(p) ==
    {slots[p][i].seq : i \in {j \in 0 .. BUFFER_SIZE - 1 : slots[p][j] # NoMsg}}
    \cup (IF cmsg.prod = p THEN {cmsg.seq} ELSE {})
    \cup {batch[i].seq : i \in {j \in 1 .. Len(batch) : batch[j].prod = p}}
    \cup {written[i].line.seq : i \in {j \in 1 .. Len(written) : written[j].line.prod = p}}
    \cup {console[i].line.seq : i \in {j \in 1 .. Len(console) : console[j].line.prod = p}}

C5_NoRecordLost == \A p \in Threads : \A k \in 1 .. enq[p] : k \in Held(p)

C5_PushStep ==
    \A p \in Threads :
        \* the test finds the ring full: nothing of the ring changes, the
        \* record is kept and the test is repeated
        /\ (pc[p] = "push" /\ pc'[p] = "push_retry")
              => (~PushHasRoom(p) /\ UNCHANGED <<head, tail, slots, cur>>)
        \* the record is constructed in a slot that holds no record
        /\ (pc[p] = "push_write" /\ pc'[p] = "push_store")
              => slots[p][tail[p]] = NoMsg
        \* the call returns with the record in the ring
        /\ (pc[p] = "push_store" /\ pc'[p] = "idle")
              => (slots'[p][tail[p]] = cur[p] /\ tail'[p] = NextIndex(tail[p]))

\* C5: enqueue on a full ring changes nothing of the ring and retries; it
\* writes only a slot that holds no record, returns only with the record in
\* the ring, and no enqueued record disappears before it is written.
C5_FullRingKeepsRecord == [][C5_PushStep]_vars /\ []C5_NoRecordLost

\* a producer that found its ring full and is retrying
C5_Witness ==
    \E p \in Threads :
        pc[p] = "push_retry" /\ ~PushHasRoom(p) /\ enq[p] - deq[p] = BUFFER_SIZE - 1

\* C6: every enqueue of a live producer eventually returns while the
\* consumer runs and every thread is scheduled.
C6_EnqueueEventuallyReturns ==
    \A p \in Threads : (pc[p] \in {"push", "push_retry"}) ~> (pc[p] = "idle")

\* C7: each ring holds at most BUFFER_SIZE - 1 records, counted as pushes
\* completed minus pops completed, and size() agrees with that count.
C7_RingBound ==
    \A p \in Threads :
        /\ 0 <= enq[p] - deq[p]
        /\ enq[p] - deq[p] <= BUFFER_SIZE - 1
        /\ RingSize(head[p], tail[p], BUFFER_SIZE) = enq[p] - deq[p]

\* a ring that holds BUFFER_SIZE - 1 records
C7_Witness == \E p \in Threads : enq[p] - deq[p] = BUFFER_SIZE - 1 /\ pc[p] = "idle"

(* ---------------- Claims: severity filter ---------------- *)
\* the level a formatted line is tagged with
LevelOfTag(tag) == CHOOSE l \in TRACE .. STEP : LEVEL_STRINGS[l + 1] = tag

\* the level tags of the lines of producer p in an output stream
TagsOf(out, p) ==
    LET mine == SelectSeq(out, LAMBDA l : l.line.prod = p)
    IN [i \in 1 .. Len(mine) |-> mine[i].line.tag]

\* the level tags of the log calls of p at or above min_level, in call order
AcceptedTags(p) ==
    LET acc == SelectSeq(history[p], LAMBDA l : l >= config.minLevel)
    IN [i \in 1 .. Len(acc) |-> LEVEL_STRINGS[acc[i] + 1]]

\* no record below min_level is in a ring, with the consumer, or in a sink
C8_NothingBelowMinLevel ==
    /\ \A p \in Threads : \A i \in 0 .. BUFFER_SIZE - 1 :
          slots[p][i] # NoMsg => slots[p][i].level >= config.minLevel
    /\ \A p \in Threads : cur[p] # NoMsg => cur[p].level >= config.minLevel
    /\ \A i \in 1 .. Len(batch) : batch[i].level >= config.minLevel
    /\ \A i \in 1 .. Len(written) : LevelOfTag(written[i].line.tag) >= config.minLevel
    /\ \A i \in 1 .. Len(console) : LevelOfTag(console[i].line.tag) >= config.minLevel

\* C8: with min_level unchanged, a call below min_level enqueues nothing, no
\* record below min_level reaches a sink, and once destroy_instance has
\* returned every call at or above min_level has its line in the file, the
\* lines of each thread in call order.
C8_SeverityFilter ==
    /\ C8_NothingBelowMinLevel
    /\ destroyed => \A p \in Threads : TagsOf(written, p) = AcceptedTags(p)

C10_IdempotentInitialize ==
    (created > 0 /\ initFlag # "running") =>
        /\ instance = "live"
        /\ spawned = 1
        /\ cpc # "none"
        /\ (firstCfg.fileOutput => logFileOpen)
        /\ config = firstCfg

(* ---------------- Claims: use before initialize ---------------- *)
\* a log call (the macro: get_instance, then log) is made in this step
LogCallStep == budget'.log < budget.log

\* C11: a logging macro used while no initialize call has succeeded fails in
\* get_instance and has no effect: no instance, no consumer thread, no ring
\* and no record is created.
C11_UseBeforeInitialize ==
    [][(spawned = 0 /\ LogCallStep) =>
          /\ instance = "null"
          /\ UNCHANGED <<pc, cur, submitted, stats, ringVars, instance, created,
                         spawned, cpc, sinkVars>>]_vars

(* ---------------- Claims: shutdown ---------------- *)
\* the general scenario with every thread scheduled: the consumer thread
\* and the thread inside destroy_instance always get to take their next step
SpecShutdown ==
    /\ Init
    /\ [][Next]_vars
    /\ WF_vars(Consumer)
    /\ WF_vars(DestroyJoin(Main))

\* C12: once destroy_instance has given the stop signal it eventually
\* returns; when it has returned the consumer thread has left its loop,
\* finished the final drain and ended, and the file is flushed and closed.
C12_ShutdownTerminates ==
    /\ (pc[Main] = "join") ~> destroyed
    /\ [](destroyed => /\ cpc = "exited"
                       /\ ~running
                       /\ batch = <<>>
                       /\ unflushed = <<>>
                       /\ ~logFileOpen
                       /\ TotalFileLines = Len(written))

\* destroy_instance has returned after the final drain wrote a record
C12_Witness == destroyed /\ deq[Main] > 0 /\ TotalFileLines = Len(written) /\ Len(written) > 0

(* ---------------- Claims: duplicates ---------------- *)
\* how often record k of producer p is in an output stream
Occurrences(out, p, k) ==
    Cardinality({i \in 1 .. Len(out) : out[i].line.prod = p /\ out[i].line.seq = k})

\* how often record k of producer p is in the batch
InBatch(p, k) ==
    Cardinality({i \in 1 .. Len(batch) : batch[i].prod = p /\ batch[i].seq = k})

C14_ActiveFileSizeBound ==
    /\ fileHist.peak <= config.maxFileSize + LineBytes
    /\ ActiveLines(fsys, unflushed) * LineBytes <= config.maxFileSize + LineBytes

\* the files of log_dir that match the prefix
MatchingFiles == Cardinality(ExistingFiles(fsys))

C16_IoErrorHandledLocally ==
    io.errors > 0 =>
        /\ io.reported = io.errors
        /\ ~io.terminated
        /\ cpc # "terminated"

\* C17: a failed initialize starts no consumer and leaves the logger
\* uninitialized, so that a later get_instance fails.
C17_FailedInitializeLeavesNothing ==
    (spawned = 0 /\ initOwner = -1) => (instance = "null" /\ cpc = "none")

(* ---------------- Claims: colours ---------------- *)
\* every line the file sink holds: accepted by the stream, still in its
\* buffer, or in a file of log_dir
FileSinkLines ==
    {written[i] : i \in 1 .. Len(written)}
        \cup {unflushed[i] : i \in 1 .. Len(unflushed)}
        \cup UNION {{fsys[n].lines[i] : i \in 1 .. Len(fsys[n].lines)} : n \in FileNames}

\* C18: whatever use_colors, console_output and file_output are, what the
\* file sink receives for a record is the formatted line alone, without
\* colour or reset escape; the escapes go to the terminal lines only, and
\* only when use_colors is set.
C18_NoColourInFile ==
    /\ \A l \in FileSinkLines :
          /\ l.pre = "" /\ l.post = ""
          /\ l.line.seq \in 1 .. enq[l.line.prod]
          /\ config.fileOutput
    /\ \A j \in 1 .. Len(console) :
          /\ config.consoleOutput
          /\ console[j].pre = IF config.useColors
                              THEN GetLevelColor(LevelOfTag(console[j].line.tag))
                              ELSE ""
          /\ console[j].post = IF config.useColors THEN COLOR_RESET ELSE ""

\* with colours, console and file all on, a record reached the terminal
\* with its escapes and the file without them
C18_Witness ==
    /\ destroyed
    /\ config.useColors /\ config.consoleOutput /\ config.fileOutput
    /\ \E i \in 1 .. Len(fsys[ActiveFile].lines) : \E j \in 1 .. Len(console) :
          /\ fsys[ActiveFile].lines[i].line = console[j].line
          /\ console[j].pre = GetLevelColor(WARNING)
          /\ console[j].post = COLOR_RESET
          /\ fsys[ActiveFile].lines[i].pre = ""

(* ---------------- Claims: ownership and locking ---------------- *)
\* a step of the consumer thread that hands a batch to processMessageBatch
ConsumerWritesBatch ==
    cpc \in {"flush", "dflush", "dfinal"} /\ cpc' # cpc /\ batch # <<>>

\* C19: while the consumer thread runs, only the consumer closes, opens or
\* writes the log file or changes current_size, and the consumer never
\* writes a batch to a handle that another thread closed.
C19_FileOwnedByConsumer ==
    [][/\ (cpc \notin {"none", "exited"} /\
           <<logFileOpen, currentFileSize, fsys, unflushed>>' #
               <<logFileOpen, currentFileSize, fsys, unflushed>>) => cpc' # cpc
       /\ (ConsumerWritesBatch /\ config.fileOutput) => logFileOpen]_vars

\* C20: no producer reads min_level and the consumer processes no batch
\* while a thread holds the configuration lock exclusively inside
\* configure.
C20_NoReadDuringConfigure ==
    [][configHolder # -1 => (~LogCallStep /\ ~ConsumerWritesBatch)]_vars

(* ---------------- Claims: producers and the consumer ---------------- *)
\* positions of a thread inside the submit path of log()
SubmitPositions == {"getbuf", "push", "push_retry", "push_write", "push_store"}

\* a thread inside submit whose next step cannot be taken
SubmitBlocked(p) == pc[p] \in SubmitPositions /\ ~ENABLED Producer(p)

\* C21 as stated: no submit ever waits for anything the consumer holds; a
\* thread inside submit can always take its next step (the retry on a full
\* ring being a step).
C21_SubmitNeverWaits == \A p \in Threads : ~SubmitBlocked(p)

\* C21, amended: a submit waits for no consumer I/O; it can be held up by
\* the consumer only at the registration of its ring, for the time the
\* consumer holds the registry mutex to copy a snapshot, and the consumer
\* holds that mutex in no other position.
C21_SubmitWaitsOnlyForSnapshot ==
    /\ \A p \in Threads :
          SubmitBlocked(p) => (pc[p] = "getbuf" /\ registryMutex = ConsumerThread)
    /\ (registryMutex = ConsumerThread) <=> (cpc \in {"snap", "dsnap"})
    /\ registryMutex \in {Unlocked, ConsumerThread}

\* a producer at its first submission while the consumer copies a snapshot
C21_Witness ==
    \E p \in Threads : pc[p] = "getbuf" /\ registryMutex = ConsumerThread /\ cpc = "snap"

(* ---------------- Claims: module names ---------------- *)
\* every record that exists: under construction, in a ring, with the
\* consumer, or formatted in a sink
LiveRecords ==
    ({cur[p] : p \in Threads} \cup {cmsg}
        \cup UNION {{slots[p][i] : i \in 0 .. BUFFER_SIZE - 1} : p \in Threads}
        \cup {batch[i] : i \in 1 .. Len(batch)}
        \cup {written[i].line : i \in 1 .. Len(written)}
        \cup {console[i].line : i \in 1 .. Len(console)}) \ {NoMsg}

\* C22: each record carries the module name its submitting thread had when
\* it submitted it; set_module_name on a thread changes that thread's name
\* only, and no record that already exists.
C22_ModuleNamePerProducer ==
    /\ [](\A r \in LiveRecords :
            /\ r.seq \in 1 .. Len(modHist[r.prod])
            /\ r.module = modHist[r.prod][r.seq])
    /\ [][moduleName' # moduleName =>
            /\ Cardinality({q \in Threads : moduleName'[q] # moduleName[q]}) = 1
            /\ UNCHANGED <<cur, cmsg, slots, batch, written, console, modHist>>]_vars

\* two threads' records are in the file under different module names, one
\* of them under a name its thread has changed since
C22_Witness ==
    \E i, j \in 1 .. Len(written) :
        /\ written[i].line.prod # written[j].line.prod
        /\ written[i].line.module # written[j].line.module
        /\ written[i].line.module # moduleName[written[i].line.prod]
        /\ written[i].line.module # DefaultModule

(* ---------------- Claims: terminal sink ---------------- *)
\* C23: with console_output on, nothing written to standard output for a
\* batch stays in the stream buffer once the batch has been processed, and
\* nothing is left unflushed when the consumer exits.
C23_ConsoleFlushedPerBatch ==
    /\ cpc \notin {"flush", "dflush", "dfinal"} => coutHeld = <<>>
    /\ cpc = "exited" => coutHeld = <<>>

(* ---------------- Claims: slot publication ---------------- *)
\* the consumer is between the index loads and the move of a pop on ring p
ConsumerReading(p) == cpc \in {"move", "dmove"} /\ snap[idx] = p

\* the consumer has moved the head record of ring p out and not stored head
ConsumerMovedOut(p) == cpc \in {"store", "dstore"} /\ snap[idx] = p

\* slot of ring p at distance k from head
SlotAt(p, k) == slots[p][(head[p] + k) % BUFFER_SIZE]

\* C24: with push and pop taken step by step, the slot the consumer reads
\* lies in the published range and holds a completely written record; the
\* slot the producer writes holds no record and is not the one the consumer
\* reads; every slot of [head, tail) holds the record of its position.
C24_SlotPublication ==
    \A p \in Threads :
        /\ ConsumerReading(p) =>
              /\ head[p] # tail[p]
              /\ slots[p][head[p]] # NoMsg
              /\ ~(pc[p] \in {"push_write", "push_store"} /\ tail[p] = head[p])
        /\ pc[p] = "push_write" => slots[p][tail[p]] = NoMsg
        /\ \A k \in 0 .. RingSize(head[p], tail[p], BUFFER_SIZE) - 1 :
              IF k = 0 /\ ConsumerMovedOut(p)
              THEN SlotAt(p, k) = NoMsg /\ cmsg.prod = p /\ cmsg.seq = deq[p] + 1
              ELSE SlotAt(p, k).prod = p /\ SlotAt(p, k).seq = deq[p] + k + 1

\* the ring has wrapped around; the consumer is reading the slot at head
\* while the producer is writing the slot at tail
C24_Witness ==
    \E p \in Threads :
        /\ ConsumerReading(p)
        /\ pc[p] = "push_write"
        /\ tail[p] < head[p]

(* ---------------- Claims: one ring per producer ---------------- *)
\* how many times ring b is in the registry
TimesRegistered(b) == Cardinality({i \in 1 .. Len(registry) : registry[i] = b})

\* the ring of each thread: none before its first accepted submission, one
\* registered once from then on until the thread exits
C25_RingState ==
    \A p \in Threads :
        /\ TimesRegistered(p) <= 1
        /\ TimesRegistered(p) = 1 => exists[p]
        /\ (exists[p] /\ pc[p] # "exited") => TimesRegistered(p) = 1
        /\ ~exists[p] => (enq[p] = 0 /\ head[p] = 0 /\ tail[p] = 0)
        /\ (exists[p] /\ pc[p] \notin SubmitPositions) => enq[p] >= 1

\* who creates a ring and who moves its indices
C25_RingStep ==
    \A p \in Threads :
        /\ exists'[p] # exists[p] =>
              (pc[p] = "getbuf" /\ ~exists[p] /\ enq[p] = 0
               /\ registry' = Append(registry, p))
        /\ tail'[p] # tail[p] => pc[p] = "push_store"
        /\ head'[p] # head[p] => (cpc \in {"store", "dstore"} /\ snap[idx] = p)
        /\ (enq'[p] # enq[p] /\ exists[p]) => UNCHANGED <<exists, registry>>

\* C25: each producer thread has exactly one ring, created and registered
\* once at its first accepted submission and reused afterwards; only its
\* owner advances tail and only the consumer advances head.
C25_OneRingPerProducer == []C25_RingState /\ [][C25_RingStep]_vars

\* two producers have their rings registered, one of them has reused its
\* ring for a second record
C25_Witness ==
    \E p, q \in Threads :
        /\ p # q
        /\ TimesRegistered(p) = 1 /\ TimesRegistered(q) = 1
        /\ enq[p] >= 2 /\ enq[q] >= 1

(* ---------------- Claims: registry ---------------- *)
\* the rings registered and not yet unregistered, told from the threads:
\* registerBuffer has returned for a thread that has a ring, and
\* unregisterBuffer has returned for one that has finished its exit
LiveRings == {p \in Threads : exists[p] /\ pc[p] # "exited"}

\* a step in which getAllBuffers returns its copy
SnapshotStep == cpc \in {"snap", "dsnap"} /\ cpc' # cpc

\* C26: whatever the interleaving of register, unregister and snapshot, a
\* snapshot holds exactly the rings registered and not yet unregistered
\* when it is taken, each once; a ring whose unregister has returned is in
\* no snapshot taken afterwards.
C26_SnapshotConsistent ==
    [][SnapshotStep =>
          /\ {snap'[i] : i \in 1 .. Len(snap')} = LiveRings
          /\ Len(snap') = Cardinality(LiveRings)
          /\ \A p \in Threads :
                (exists[p] /\ pc[p] = "exited") =>
                    \A i \in 1 .. Len(snap') : snap'[i] # p]_vars

\* a snapshot has just been taken that holds the ring of the main thread and
\* not the ring of a worker that has unregistered
C26_Witness ==
    /\ cpc = "buf" /\ idx = 1
    /\ \E i \in 1 .. Len(snap) : snap[i] = Main
    /\ \E p \in Workers :
          /\ exists[p] /\ pc[p] = "exited"
          /\ \A i \in 1 .. Len(snap) : snap[i] # p

(* ---------------- Claims: consumer state machine ---------------- *)
\* positions of the consumer inside the main loop and inside the final drain
MainLoopPositions == {"loop", "snap", "buf", "pop", "move", "store", "flush", "sleep"}
DrainPositions == {"drain", "dsnap", "dpop", "dmove", "dstore", "dflush", "dfinal", "dsync"}

\* Running = 1: in the main loop with no stop signal; Stopping = 2: stop
\* signalled or in the final drain; Drained = 3: the thread has returned
ConsumerPhase ==
    IF cpc = "none" THEN 0
    ELSE IF cpc = "exited" THEN 3
    ELSE IF running /\ cpc \in MainLoopPositions THEN 1
    ELSE 2

C27_PhaseStep ==
    \* never back
    /\ ConsumerPhase' >= ConsumerPhase
    \* after the stop signal no further round is started
    /\ (~running /\ cpc = "loop" /\ cpc' # cpc) => cpc' = "drain"
    /\ (~running /\ cpc \in DrainPositions) => cpc' \notin MainLoopPositions
    \* the drain moves on from a ring only when the ring is empty
    /\ (cpc = "dpop" /\ idx' = idx + 1) => RingEmpty(snap[idx])
    \* the batch is written, then the file is flushed, then the thread ends
    /\ (cpc # "exited" /\ cpc' = "exited") =>
          (cpc = "dsync" /\ batch = <<>> /\ unflushed' = <<>>)
    \* nothing is dequeued after the end
    /\ cpc = "exited" => (cpc' = "exited" /\ UNCHANGED <<head, deq, batch, written>>)

\* C27: the consumer goes from Running to Stopping to Drained and never
\* back; after the stop signal it starts no new round, drains every ring of
\* a registry snapshot until it is empty, flushes the file, exits, and
\* dequeues nothing afterwards.
C27_ConsumerStateMachine ==
    /\ [][C27_PhaseStep]_vars
    /\ [](cpc \in {"dfinal", "dsync"} =>
            /\ ~running
            /\ \A p \in atStop : InRegistry(p) => RingEmpty(p))

\* the stop signal has come while a round was in progress: the consumer
\* holds the batch of that round and has yet to write it
C27_Witness == ~running /\ cpc = "flush" /\ batch # <<>> /\ pc[Main] = "join"

(* ---------------- Claims: quota ---------------- *)
\* records of ring p in the batch of the round
FromRing(p) == Cardinality({i \in 1 .. Len(batch) : batch[i].prod = p})

\* positions of a main-loop round between its snapshot and its flush
RoundPositions == {"buf", "pop", "move", "store", "flush"}

\* C28: in a main-loop round at most BATCH_SIZE \div max(snapshot size, 1)
\* records are dequeued from one ring, and at most BATCH_SIZE in all,
\* before the batch is flushed.
C28_QuotaBound ==
    cpc \in RoundPositions =>
        /\ Len(batch) <= BATCH_SIZE
        /\ \A p \in Threads : FromRing(p) <= BATCH_SIZE \div Max(Len(snap), 1)
        /\ cpc \in {"move", "store"} =>
              /\ Len(batch) < BATCH_SIZE
              /\ FromRing(snap[idx]) < BATCH_SIZE \div Max(Len(snap), 1)

\* a round over two rings ends with the quota of one ring used up while
\* that ring still holds records
C28_Witness ==
    /\ cpc = "flush"
    /\ Len(snap) = BATCH_SIZE
    /\ \E p \in Threads :
          /\ FromRing(p) = BATCH_SIZE \div Len(snap)
          /\ ~RingEmpty(p)

\* the consumer ends the turn of the ring at idx in a main-loop round
TurnEnds == cpc \in {"buf", "pop"} /\ idx' = idx + 1

\* C29: in every main-loop round each ring of the snapshot that holds a
\* record at its turn has at least one record dequeued, however many rings
\* the snapshot contains.
C29_NoStarvation ==
    [][(TurnEnds /\ ~RingEmpty(snap[idx])) => FromRing(snap[idx]) >= 1]_vars

\* C30: the consumer sleeps at the end of a round only when every ring of
\* the snapshot was empty at its turn: a round in which some ring held a
\* record dequeues at least one record and does not sleep.
C30_SleepOnlyWhenAllEmpty ==
    /\ cpc = "sleep" => ~sawRecord
    /\ (cpc \in {"flush", "sleep"} /\ sawRecord) => processed

(* ---------------- Claims: rotation ---------------- *)
\* the consumer writes a non-empty batch to the file sink in this step
FileWriteStep ==
    /\ cpc \in {"flush", "dflush", "dfinal"}
    /\ batch # <<>>
    /\ batch' = <<>>
    /\ config.fileOutput

\* current_size as the write of the batch leaves it
SizeAfterWrite == currentFileSize + Len(batch) * LineBytes

\* C31: a file write that brings current_size to max_file_bytes or more
\* triggers exactly one rotation: the active file goes to the timestamped
\* name, a fresh active file is opened, current_size becomes 0 and cleanup
\* runs; a write that leaves current_size below the limit triggers no
\* rotation and changes no file name.
C31_RotationStep ==
    FileWriteStep =>
        IF SizeAfterWrite >= config.maxFileSize
        THEN /\ fileHist'.rotations = fileHist.rotations + 1
             /\ currentFileSize' = 0
             /\ fsys'[ActiveFile].exists /\ fsys'[ActiveFile].lines = <<>>
             /\ logFileOpen'
             /\ fsys'[clock].exists =>
                    Len(fsys'[clock].lines) = ActiveLines(fsys, unflushed) + Len(batch)
             /\ config.maxFiles > 1 => fsys'[clock].exists
             /\ Cardinality(ExistingFiles(fsys')) <= config.maxFiles
        ELSE /\ fileHist'.rotations = fileHist.rotations
             /\ currentFileSize' = SizeAfterWrite
             /\ ExistingFiles(fsys') = ExistingFiles(fsys)

C31_RotationTriggerAndReset == [][C31_RotationStep]_vars

\* a rotation has happened after a write that stayed below the limit: the
\* rotated file holds the lines of both writes
C31_Witness ==
    /\ fileHist.rotations = 1
    /\ currentFileSize = 0
    /\ \E n \in 0 .. MaxClock : fsys[n].exists /\ Len(fsys[n].lines) = MediumFile
    /\ cpc = "loop"

\* C32: outside a call of configure, current_size equals the number of
\* bytes of the active file, the bytes the stream still buffers included,
\* also after a write or an open that did not succeed.
C32_SizeTracksActiveFile ==
    (instance = "live" /\ config.fileOutput /\ configHolder = -1) =>
        currentFileSize = ActiveLines(fsys, unflushed) * LineBytes

(* ---------------- Claims: cleanup ---------------- *)
\* a rotation, which ends with cleanup, happens in this step
RotationStep == fileHist'.rotations = fileHist.rotations + 1

\* rotated files that this step deletes
Gone ==
    {n \in (0 .. MaxClock) \ {clock} : fsys[n].exists /\ ~fsys'[n].exists}

\* files with the prefix and the .log extension after this step
Kept == {n \in DirEntries(fsys') : Extension(n) = ".log" /\ StartsWith(Stem(n), FilePrefix)}

\* C33: cleanup deletes only files whose stem starts with file_prefix and
\* whose extension is .log, keeps the max_files most recently modified of
\* them and deletes the older ones; every other file of log_dir is left
\* untouched, and nothing is deleted outside a rotation.
C33_CleanupStep ==
    /\ instance = "live" => \A n \in OtherFiles : fsys'[n] = fsys[n]
    /\ ~RotationStep => DirEntries(fsys) \subseteq DirEntries(fsys')
    /\ RotationStep =>
          /\ \A d \in Gone : \A k \in Kept : fsys[d].mtime < fsys'[k].mtime
          /\ (Gone # {} \/ ~fsys'[clock].exists) => Cardinality(Kept) = config.maxFiles
          /\ Cardinality(Kept) <= config.maxFiles

C33_CleanupSelection == [][C33_CleanupStep]_vars

\* cleanup has deleted the oldest rotated file and kept two newer ones
\* while both files of other programs are still in log_dir
C33_Witness ==
    /\ fileHist.rotations >= 2
    /\ ~fsys[0].exists /\ fsys[1].exists /\ fsys[ActiveFile].exists
    /\ fsys[ForeignLog].exists /\ fsys[PrefixText].exists

\* C34: after every rotation at most max_files files with the prefix and
\* the .log extension are in log_dir, the active file counted among them.
C34_RetentionBound ==
    [][RotationStep => (ActiveFile \in Kept /\ Cardinality(Kept) <= config.maxFiles)]_vars

\* a rotation has just ended with exactly max_files matching files, after
\* cleanup deleted the oldest one
C34_Witness ==
    /\ fileHist.rotations >= 2
    /\ currentFileSize = 0
    /\ Cardinality(ExistingFiles(fsys)) = config.maxFiles
    /\ config.maxFiles = FewFiles
    /\ ~fsys[0].exists

(* ---------------- Claims: filtered calls ---------------- *)
\* thread p makes a log call with a level below min_level in this step
FilteredCallBy(p) ==
    /\ LogCallStep
    /\ Len(history'[p]) = Len(history[p]) + 1
    /\ history'[p][Len(history'[p])] < config.minLevel

\* C35: a log call with level < min_level returns at once: it creates and
\* registers no ring, also as the first call of its thread, enqueues
\* nothing and leaves every ring, the registry and the statistics unchanged.
C35_FilteredCallStep ==
    \A p \in Threads :
        FilteredCallBy(p) =>
            /\ pc'[p] = "idle"
            /\ exists' = exists /\ registry' = registry /\ isActive' = isActive
            /\ slots' = slots /\ head' = head /\ tail' = tail
            /\ enq' = enq /\ submitted' = submitted
            /\ stats' = stats

C35_FilteredCallNoEffect == [][C35_FilteredCallStep]_vars

\* a thread whose calls were all below min_level has no ring, while
\* another thread's accepted record is in its registered ring
C35_Witness ==
    \E p, q \in Threads :
        /\ history[p] # <<>>
        /\ \A i \in 1 .. Len(history[p]) : history[p][i] < config.minLevel
        /\ ~exists[p] /\ pc[p] = "idle" /\ stats[p] = 0
        /\ q # p /\ InRegistry(q) /\ ~RingEmpty(q)

(* ---------------- Claims: isNearlyFull ---------------- *)
\* records in the ring under observation: the distance from head to tail,
\* counted round the ring
Occupancy == (probe.tail - probe.head + probe.cap) % probe.cap

\* C36: isNearlyFull returns true exactly when the occupancy of the ring,
\* computed from head and tail with wrap-around, is at least 90% of the
\* capacity, for every capacity that is a power of two.
C36_NearlyFullThreshold ==
    probe.size >= 0 =>
        /\ probe.size = Occupancy
        /\ probe.nearly <=> (10 * Occupancy >= 9 * probe.cap)

\* isNearlyFull has returned true on a ring whose records wrap round the
\* end of the array
C36_Witness ==
    /\ probe.size >= 0
    /\ probe.tail < probe.head
    /\ probe.nearly
    /\ probe.cap = 2^MaxCapLog

(* ---------------- Claims: rotated files ---------------- *)
\* C37: a rotation renames the active file to a name that is not in use,
\* also when the previous rotation happened in the same second; a rotated
\* file keeps its records until retention cleanup deletes it.
C37_RotatedFileStep ==
    /\ (RotationStep /\ fsys[ActiveFile].exists) => ~fsys[clock].exists
    /\ \A n \in 0 .. MaxClock :
          fsys[n].exists =>
              \/ fsys'[n] = fsys[n]
              \/ /\ RotationStep
                 /\ ~fsys'[n].exists
                 /\ Cardinality(Kept) = config.maxFiles

C37_RotationKeepsRecords == [][C37_RotatedFileStep]_vars

(* ---------------- Claims: initialization after destroy ---------------- *)
\* an initialize call is made in this step
InitializeStep == budget'.init < budget.init

\* C38: once destroy_instance has returned, a further initialize call
\* creates no instance and starts no consumer thread, and get_instance
\* keeps failing.
C38_InitializeOncePerProcess ==
    /\ [](destroyed => instance = "null")
    /\ [][(destroyed /\ InitializeStep) =>
             (created' = created /\ spawned' = spawned /\ cpc' = cpc)]_vars

====
